---- MODULE Spec2Model ----
(***************************************************************************)
(* Model of solve_provisioning_ilp (src/ilp_tools/ilp_solver.py): the      *)
(* slicer, the load matrix, the construction of the integer program, the   *)
(* call of the MIP backend and the shaping of the result.                  *)
(*                                                                         *)
(* Numbers.  Rates and throughputs are exact rationals: an input rate or   *)
(* throughput is an integer number of 1/unit requests per second, where    *)
(* unit is an input of the run (1: whole rps; 10^9: nano-rps, the regime   *)
(* of the slicer's 1e-6 and 1e-9 thresholds).  A rate portion and a load   *)
(* are records [num, den].                                                 *)
(***************************************************************************)
EXTENDS Integers, Sequences, FiniteSets, TLC

VARIABLES
    worker_units,        \* input: sequence of [id, cost, max_limit]
    profile_data,        \* input: function (worker id, request id) -> throughput
    distribution_data,   \* input: ordered dict, a sequence of <<request id, rate>>
    arg_slice_factor,    \* input: the slice_factor argument as passed
    slice_factor,        \* the local slice_factor; the slicer sets it to 1 when <= 0
    unit,                \* input: rates and throughputs count 1/unit rps
    pc,                  \* position in solve_provisioning_ilp
    slices,              \* the slice list
    load_matrix,         \* (slice id, worker id) -> load or Inf
    solver,              \* NoSolver | "SCIP" | SolverNone
    B,                   \* worker ids with an integer variable B_j
    A,                   \* (slice id, worker id) pairs with a boolean variable A_ij
    constraints,         \* [assign, cap, limit] added to the solver
    objective,           \* worker id -> coefficient
    status,              \* backend status of Solve, or NoStatus
    solution,            \* Some backend solution [B, A] when OPTIMAL, else None
    result,              \* Some returned tuple [counts, assignments, slices], or None
    prev,                \* result and inputs of the previous call of a driver, or None
    demo,                \* the run of run_live_ilp_demo that makes the call, or None
    bucketing            \* a call of _get_power_of_two_bucket: its n and result, or None

vars == <<worker_units, profile_data, distribution_data, arg_slice_factor,
          slice_factor, unit, pc,
          slices, load_matrix, solver, B, A, constraints, objective, status,
          solution, result, prev, demo, bucketing>>

inputs == <<worker_units, profile_data, distribution_data, arg_slice_factor,
            slice_factor, unit>>

\* Optional values: None, or Some(x)
None == << >>
Some(x) == <<x>>
\* float('inf'), as the load 1/0
Inf == [num |-> 1, den |-> 0]
NoSolver == "not created"
SolverNone == "None"
NoStatus == "not solved"

(***************************************************************************)
(* Bounds of the model.                                                    *)
(***************************************************************************)
MaxRate == 3
MaxSliceFactor == 2
MaxLimit == 1
MaxCount == 5

(***************************************************************************)
(* Tolerances of the code, as reciprocals: 1e-6 = 1/PortionEpsInv,         *)
(* 1e-9 = 1/RateEpsInv, 1e-6 = 1/CountEpsInv, 0.5 = 1/CutoffInv.           *)
(***************************************************************************)
PortionEpsInv == 1000000
RateEpsInv == 1000000000
CountEpsInv == 1000000
CutoffInv == 2

WorkerIds == <<"A", "B">>
RequestTypes == {"R1", "R2"}
Statuses == {"OPTIMAL", "FEASIBLE", "INFEASIBLE", "UNBOUNDED", "ABNORMAL",
             "NOT_SOLVED", "MODEL_INVALID"}

(***************************************************************************)
(* Exact rational arithmetic on [num, den] with den > 0.                   *)
(***************************************************************************)
RECURSIVE GCD(_, _)
GCD(a, b) == IF b = 0 THEN a ELSE GCD(b, a % b)

Q(n, d) == LET g == GCD(IF n < 0 THEN -n ELSE n, d)
           IN  [num |-> n \div g, den |-> d \div g]

QAdd(x, y) == LET g == GCD(x.den, y.den)
              IN  Q(x.num * (y.den \div g) + y.num * (x.den \div g),
                    (x.den \div g) * y.den)

QLeq(x, y) == x.num * y.den <= y.num * x.den

QZero == [num |-> 0, den |-> 1]

\* ceil(n / d) for d > 0: math.ceil
Ceil(n, d) == -((-n) \div d)

RECURSIVE QSum(_, _)
QSum(f, S) == IF S = {} THEN QZero
              ELSE LET x == CHOOSE x \in S : TRUE
                   IN  QAdd(f[x], QSum(f, S \ {x}))

RECURSIVE Sum(_, _)
Sum(f, S) == IF S = {} THEN 0
             ELSE LET x == CHOOSE x \in S : TRUE
                  IN  f[x] + Sum(f, S \ {x})

(***************************************************************************)
(* Section 1: the slicer (ilp_solver.py 35-50).                            *)
(***************************************************************************)
\* rate_portion < 1e-6, for rate_portion = total_rate / k in units of 1/u rps
PortionBelowEps(total_rate, k, u) ==
    LET g == GCD(PortionEpsInv, u)
    IN  total_rate * (PortionEpsInv \div g) < k * (u \div g)

\* total_rate > 1e-9, for total_rate in units of 1/u rps
RateAboveEps(total_rate, u) == total_rate > u \div RateEpsInv

\* mutant: the slice factor is used as passed
ClampSliceFactor_AsPassed(k) == k

\* slice_factor after `if slice_factor <= 0: slice_factor = 1`
ClampSliceFactor(k) == IF k <= 0 THEN 1 ELSE k

\* mutant: an entry too small to split is skipped
EntrySliceCount_SkipsSmall(total_rate, k, u) ==
    IF total_rate <= 0 THEN 0
    ELSE IF PortionBelowEps(total_rate, ClampSliceFactor(k), u) THEN 0
    ELSE ClampSliceFactor(k)

\* current_slice_factor of one demand entry; 0 when the entry is skipped
EntrySliceCount(total_rate, k, u) ==
    IF total_rate <= 0 THEN 0
    ELSE IF PortionBelowEps(total_rate, ClampSliceFactor(k), u)
         THEN IF RateAboveEps(total_rate, u) THEN 1 ELSE 0
         ELSE ClampSliceFactor(k)

\* mutant: a coarsened entry keeps the portion total_rate / slice_factor
EntryPortion_AlwaysSplit(total_rate, k, u) == Q(total_rate, ClampSliceFactor(k))

\* rate_portion of the slices of one demand entry that is not skipped
EntryPortion(total_rate, k, u) ==
    IF PortionBelowEps(total_rate, ClampSliceFactor(k), u)
    THEN Q(total_rate, 1)
    ELSE Q(total_rate, ClampSliceFactor(k))

\* mutant: the counter advances by one per demand entry
NextSliceIdCounter_PerEntry(counter, current_slice_factor) ==
    counter + (IF current_slice_factor > 0 THEN 1 ELSE 0)

\* slice_id_counter after the entry: slice_id_counter += current_slice_factor
NextSliceIdCounter(counter, current_slice_factor) == counter + current_slice_factor

\* the slices appended for one demand entry: ids slice_id_counter + i
EntrySlices(req_type_id, total_rate, k, u, counter) ==
    [i \in 1..EntrySliceCount(total_rate, k, u) |->
        [id |-> counter + (i - 1), request_type_id |-> req_type_id,
         rate_portion |-> EntryPortion(total_rate, k, u)]]

\* the loop over distribution_data.items(), from entry i on
RECURSIVE MakeSlices(_, _, _, _, _, _)
MakeSlices(dist, i, k, u, counter, acc) ==
    IF i > Len(dist) THEN [slices |-> acc, slice_factor |-> k]
    ELSE LET n   == EntrySliceCount(dist[i][2], k, u)
             new == EntrySlices(dist[i][1], dist[i][2], k, u, counter)
             k2  == IF dist[i][2] > 0 THEN ClampSliceFactor(k) ELSE k
         IN  MakeSlices(dist, i + 1, k2, u, NextSliceIdCounter(counter, n),
                        acc \o new)

WorkerIdSet == {worker_units[i].id : i \in DOMAIN worker_units}
WorkerOf(id) == worker_units[CHOOSE i \in DOMAIN worker_units : worker_units[i].id = id]

\* mutant: no slices is reported as a failure
EmptyProvisioning_Failure(sl) == [counts |-> None, assignments |-> None, slices |-> sl]

\* return ({w.id: 0 for w in worker_units}, {}, slices)
EmptyProvisioning(sl) ==
    [counts |-> Some([w \in WorkerIdSet |-> 0]), assignments |-> Some(<< >>),
     slices |-> sl]

\* mutant: a failure returns empty dicts instead of None
NoPlan_EmptyDicts(sl) == [counts |-> Some(<< >>), assignments |-> Some(<< >>), slices |-> sl]

\* return (None, None, slices)
NoPlan(sl) == [counts |-> None, assignments |-> None, slices |-> sl]

CreateSlices ==
    /\ pc = "slices"
    /\ LET r == MakeSlices(distribution_data, 1, slice_factor, unit, 0, << >>)
       IN  /\ slices' = r.slices
           /\ slice_factor' = r.slice_factor
           /\ IF Len(r.slices) = 0
              THEN /\ result' = Some(EmptyProvisioning(r.slices))
                   /\ pc' = "done"
              ELSE /\ result' = result
                   /\ pc' = "load"
    /\ UNCHANGED <<worker_units, profile_data, distribution_data, arg_slice_factor,
                   unit, load_matrix,
                   solver, B, A, constraints, objective, status, solution, prev, demo, bucketing>>

(***************************************************************************)
(* Section 2: the load matrix (ilp_solver.py 56-68).                       *)
(***************************************************************************)
Load(s, w) ==
    LET profile_key == <<w.id, s.request_type_id>>
    IN  IF profile_key \in DOMAIN profile_data
        THEN IF profile_data[profile_key] > 0
             THEN Q(s.rate_portion.num, s.rate_portion.den * profile_data[profile_key])
             ELSE Inf
        ELSE Inf

CalcLoadMatrix ==
    /\ pc = "load"
    /\ load_matrix' = [key \in {<<slices[i].id, worker_units[j].id>> :
                                   i \in DOMAIN slices, j \in DOMAIN worker_units} |->
                          LET i == CHOOSE i \in DOMAIN slices : slices[i].id = key[1]
                          IN  Load(slices[i], WorkerOf(key[2]))]
    /\ pc' = "solver"
    /\ UNCHANGED <<inputs, slices, solver, B, A, constraints, objective, status,
                   solution, result, prev, demo, bucketing>>

(***************************************************************************)
(* Section 3: the backend (ilp_solver.py 70-77).  CreateSolver returns a   *)
(* solver, or None when no SCIP backend is linked in.                      *)
(***************************************************************************)
CreateSolver ==
    /\ pc = "solver"
    /\ \E s \in {"SCIP", SolverNone} :
          /\ solver' = s
          /\ IF s = SolverNone
             THEN /\ result' = Some(NoPlan(slices))
                  /\ pc' = "done"
             ELSE /\ result' = result
                  /\ pc' = "vars"
    /\ UNCHANGED <<inputs, slices, load_matrix, B, A, constraints, objective,
                   status, solution, prev, demo, bucketing>>

(***************************************************************************)
(* Section 4: the variables (ilp_solver.py 79-96).                         *)
(***************************************************************************)
LoadOf(sid, wid) ==
    IF <<sid, wid>> \in DOMAIN load_matrix THEN load_matrix[<<sid, wid>>] ELSE Inf

\* mutant: a variable for every pair
HasAssignmentVar_Always(sid, wid) == TRUE

\* A_ij exists iff load_matrix.get((s.id, w.id), inf) != inf
HasAssignmentVar(sid, wid) == LoadOf(sid, wid) # Inf

DeclareVariables ==
    /\ pc = "vars"
    /\ B' = WorkerIdSet
    /\ A' = {key \in {<<slices[i].id, worker_units[j].id>> :
                         i \in DOMAIN slices, j \in DOMAIN worker_units} :
                HasAssignmentVar(key[1], key[2])}
    /\ pc' = "constraints"
    /\ UNCHANGED <<inputs, slices, load_matrix, solver, constraints, objective,
                   status, solution, result, prev, demo, bucketing>>

(***************************************************************************)
(* Section 5: the constraints (ilp_solver.py 99-123).                      *)
(***************************************************************************)
\* mutant: the assignment constraints are never added
AssignConstraints_Skipped == {}

\* Assign_s: sum of the existing A[s, *] == 1, added when the sum is not empty
AssignConstraints == {key[1] : key \in A}

\* mutant: the capacity constraints are never added
CapConstraints_Skipped == {}

\* Cap_w: sum of A[s, w] * load[s, w] <= B[w], added when the sum is not empty
CapConstraints == {key[2] : key \in A}

\* mutant: a truthiness test, `if w.max_limit:`, which drops the cap 0
HasLimit_Truthy(w) == w.max_limit # None /\ w.max_limit[1] > 0

\* hasattr(w, 'max_limit') and w.max_limit is not None and w.max_limit >= 0
HasLimit(w) == w.max_limit # None /\ w.max_limit[1] >= 0

\* Limit_w: B[w] <= w.max_limit
LimitConstraints ==
    [id \in {worker_units[j].id : j \in {j \in DOMAIN worker_units :
                                           HasLimit(worker_units[j])}} |->
        WorkerOf(id).max_limit[1]]

DefineConstraints ==
    /\ pc = "constraints"
    /\ constraints' = [assign |-> AssignConstraints,
                       cap    |-> CapConstraints,
                       limit  |-> LimitConstraints]
    /\ pc' = "objective"
    /\ UNCHANGED <<inputs, slices, load_matrix, solver, B, A, objective, status,
                   solution, result, prev, demo, bucketing>>

(***************************************************************************)
(* Section 6: the objective (ilp_solver.py 125-130).                       *)
(***************************************************************************)
\* mutant: the objective counts instances and ignores their cost
ObjectiveCoefficient_Unit(w) == 1

\* objective.SetCoefficient(B[w.id], w.cost)
ObjectiveCoefficient(w) == w.cost

DefineObjective ==
    /\ pc = "objective"
    /\ objective' = [id \in B |-> ObjectiveCoefficient(WorkerOf(id))]
    /\ pc' = "solve"
    /\ UNCHANGED <<inputs, slices, load_matrix, solver, B, A, constraints, status,
                   solution, result, prev, demo, bucketing>>

(***************************************************************************)
(* Section 7: solver.Solve() (ilp_solver.py 132-135).  The backend is an   *)
(* exact MIP solver over the model built above: B[w] integer >= 0, A[s, w] *)
(* in {0, 1}.  A value of the A variables is a function from the slices    *)
(* that have variables to the set of workers whose variable is 1.          *)
(***************************************************************************)
Candidates(sid) == {wid \in B : <<sid, wid>> \in A}

AChoices(sid) ==
    IF sid \in constraints.assign
    THEN {{wid} : wid \in Candidates(sid)}
    ELSE SUBSET Candidates(sid)

RECURSIVE AValues(_)
AValues(S) ==
    IF S = {} THEN {<< >>}
    ELSE LET sid == CHOOSE sid \in S : TRUE
         IN  {(sid :> on) @@ rest : on \in AChoices(sid), rest \in AValues(S \ {sid})}

\* sum of A[s, w] * load[s, w] over the slices with a variable for w
LoadOn(a, wid) ==
    LET on == {sid \in DOMAIN a : wid \in a[sid]}
    IN  QSum([sid \in on |-> load_matrix[<<sid, wid>>]], on)

\* mutant: the load is rounded down
LowerBound_Floor(a, wid) ==
    IF wid \in constraints.cap
    THEN LET l == LoadOn(a, wid) IN l.num \div l.den
    ELSE 0

LowerBound(a, wid) ==
    IF wid \in constraints.cap
    THEN LET l == LoadOn(a, wid) IN Ceil(l.num, l.den)
    ELSE 0

\* the upper bound of B[w]: Some limit, or None for solver.infinity()
UpperBound(wid) ==
    IF wid \in DOMAIN constraints.limit THEN Some(constraints.limit[wid]) ELSE None

Feasible(a) ==
    \A wid \in B : UpperBound(wid) = None \/ LowerBound(a, wid) <= UpperBound(wid)[1]

Coefficient(wid) == IF wid \in DOMAIN objective THEN objective[wid] ELSE 0

Unbounded == \E wid \in B : Coefficient(wid) < 0 /\ UpperBound(wid) = None

\* the values of B[w] that minimise objective[w] * B[w] given the A values
BRange(a, wid) ==
    LET lo == LowerBound(a, wid)
        hi == UpperBound(wid)
    IN  IF Coefficient(wid) > 0 THEN {lo}
        ELSE IF Coefficient(wid) < 0 THEN {hi[1]}
        ELSE lo .. (IF hi = None THEN (IF lo > MaxCount THEN lo ELSE MaxCount)
                    ELSE hi[1])

ObjectiveOf(a) ==
    Sum([wid \in B |-> Coefficient(wid) * (CHOOSE b \in BRange(a, wid) : TRUE)], B)

FeasibleA == {a \in AValues({key[1] : key \in A}) : Feasible(a)}

BackendStatus ==
    IF FeasibleA = {} THEN "INFEASIBLE"
    ELSE IF Unbounded THEN "UNBOUNDED"
    ELSE "OPTIMAL"

\* mutant: the backend returns any feasible assignment
OptimalSolutions_AnyFeasible ==
    LET feas == FeasibleA
    IN  UNION {{[A |-> a, B |-> b, half |-> [sid \in DOMAIN a |-> {}]] :
                  b \in {b \in [B -> UNION {BRange(a, wid) : wid \in B}] :
                           \A wid \in B : b[wid] \in BRange(a, wid)}} : a \in feas}

OptimalSolutions ==
    LET feas == FeasibleA
        obj  == [a \in feas |-> ObjectiveOf(a)]
        best == {a \in feas : \A a2 \in feas : obj[a] <= obj[a2]}
    IN  UNION {{[A |-> a, B |-> b, half |-> [sid \in DOMAIN a |-> {}]] :
                  b \in {b \in [B -> UNION {BRange(a, wid) : wid \in B}] :
                           \A wid \in B : b[wid] \in BRange(a, wid)}} : a \in best}

\* statuses the backend reports without having decided the model
FaultStatuses == {"FEASIBLE", "ABNORMAL", "NOT_SOLVED", "MODEL_INVALID"}

Solve ==
    /\ pc = "solve"
    /\ \E st \in {BackendStatus} \cup FaultStatuses :
          /\ status' = st
          /\ IF st = "OPTIMAL"
             THEN \E sol \in OptimalSolutions : solution' = Some(sol)
             ELSE solution' = None
    /\ pc' = "results"
    /\ UNCHANGED <<inputs, slices, load_matrix, solver, B, A, constraints,
                   objective, result, prev, demo, bucketing>>

(***************************************************************************)
(* Section 8: the result (ilp_solver.py 137-169).                          *)
(***************************************************************************)
\* A[(s.id, w.id)].solution_value()
AValue(sid, wid) ==
    IF wid \in solution[1].A[sid] THEN Q(1, 1)
    ELSE IF wid \in solution[1].half[sid] THEN Q(1, 2)
    ELSE QZero

\* mutant: the tolerance is added before rounding up
Count_AddsEps(wid) == Ceil(solution[1].B[wid] * CountEpsInv + 1, CountEpsInv)

\* math.ceil(B[w.id].solution_value() - 1e-6)
Count(wid) == Ceil(solution[1].B[wid] * CountEpsInv - 1, CountEpsInv)

\* (s.id, w.id) in A and A[(s.id, w.id)].solution_value() > 0.5
Selected(sid, wid) ==
    <<sid, wid>> \in A /\ AValue(sid, wid).num * CutoffInv > AValue(sid, wid).den

\* the first worker of worker_units selected for the slice (break)
FirstSelected(sid) ==
    worker_units[CHOOSE j \in DOMAIN worker_units :
                    /\ Selected(sid, worker_units[j].id)
                    /\ \A j2 \in 1..(j - 1) : ~Selected(sid, worker_units[j2].id)].id

Plan ==
    [counts      |-> Some([wid \in WorkerIdSet |-> Count(wid)]),
     assignments |-> Some([sid \in {slices[i].id : i \in {i \in DOMAIN slices :
                                  \E wid \in WorkerIdSet : Selected(slices[i].id, wid)}} |->
                        FirstSelected(sid)]),
     slices      |-> slices]

ProcessResults ==
    /\ pc = "results"
    /\ result' = Some(IF status = "OPTIMAL" THEN Plan ELSE NoPlan(slices))
    /\ pc' = "done"
    /\ UNCHANGED <<inputs, slices, load_matrix, solver, B, A, constraints,
                   objective, status, solution, prev, demo, bucketing>>

(***************************************************************************)
(* The calls.  Spec draws the inputs from four families that conform to    *)
(* the data model (costs >= 0, caps absent or >= 0, ids of the catalog),   *)
(* with the rates <= 0 and the slice factors <= 0 the slicer handles: a    *)
(* sweep of the profile and the caps, a sweep of the costs and the caps, a *)
(* sweep of the demand and the slice factor, and demands at the scale of   *)
(* the slicer's thresholds.  SpecInvalid draws calls that break the data   *)
(* model: a negative cost, a dangling worker or request id, a negative     *)
(* rate, a slice factor below 1.                                           *)
(***************************************************************************)
Nano == 1000 * 1000 * 1000

WorkerUnit(id, cost, max_limit) == [id |-> id, cost |-> cost, max_limit |-> max_limit]

Catalog(costs, limits) ==
    [j \in DOMAIN WorkerIds |-> WorkerUnit(WorkerIds[j], costs[j], limits[j])]

Limits == {None} \cup {Some(l) : l \in 0..MaxLimit}
Costs == {0, 1, 2}

\* what one instance of the class sustains, in 1/u rps
BaseThroughput(wid, u) == IF u = 1 THEN (IF wid = "A" THEN 2 ELSE 3) ELSE 1200

ProfileKeys == {<<WorkerIds[j], r>> : j \in DOMAIN WorkerIds, r \in RequestTypes}

\* every profile over the catalog: each pair absent, 0 or the base throughput
Profiles(u) ==
    {[key \in {key \in ProfileKeys : f[key] # None} |-> f[key][1]] :
        f \in {f \in [ProfileKeys -> {None, Some(0), Some(2), Some(3)}] :
                 \A key \in ProfileKeys :
                    f[key] \in {None, Some(0), Some(BaseThroughput(key[1], u))}}}

FullProfile(u) == [key \in ProfileKeys |-> BaseThroughput(key[1], u)]

\* ordered demand maps of at most two entries with distinct keys
Demands(keys, rates) ==
    {<< >>} \cup {<< <<r, x>> >> : r \in keys, x \in rates}
            \cup {d \in {<< e1, e2 >> : e1 \in keys \X rates, e2 \in keys \X rates} :
                    d[1][1] # d[2][1]}

FreshCall ==
    /\ pc = "slices"
    /\ slices = << >>
    /\ load_matrix = << >>
    /\ solver = NoSolver
    /\ B = {}
    /\ A = {}
    /\ constraints = [assign |-> {}, cap |-> {}, limit |-> << >>]
    /\ objective = << >>
    /\ status = NoStatus
    /\ solution = None
    /\ result = None

InitProfileSweep ==
    /\ unit = 1
    /\ \E la \in Limits, lb \in Limits :
          worker_units \in {Catalog(<<1, 2>>, <<la, lb>>), Catalog(<<2, 1>>, <<la, lb>>)}
    /\ profile_data \in Profiles(1)
    /\ distribution_data = << <<"R1", MaxRate>>, <<"R2", MaxRate - 1>> >>
    /\ arg_slice_factor \in {1, MaxSliceFactor}

InitCostSweep ==
    /\ unit = 1
    /\ \E ca \in Costs, cb \in Costs, la \in Limits, lb \in Limits :
          worker_units = Catalog(<<ca, cb>>, <<la, lb>>)
    /\ profile_data = FullProfile(1)
    /\ distribution_data \in {<< <<"R1", MaxRate>>, <<"R2", MaxRate - 1>> >>,
                              << <<"R2", MaxRate>> >>}
    /\ arg_slice_factor = MaxSliceFactor

InitDemandSweep ==
    /\ unit = 1
    /\ worker_units = Catalog(<<1, 2>>, <<Some(1), None>>)
    /\ profile_data \in {FullProfile(1), << >>,
                         [FullProfile(1) EXCEPT ![<<"A", "R1">>] = -1]}
    /\ distribution_data \in Demands(RequestTypes, {-1, 0, MaxRate - 1, MaxRate})
    /\ arg_slice_factor \in 0..MaxSliceFactor

ThresholdRates == {1, 1400, 2100, 2800}

InitThresholdSweep ==
    /\ unit = Nano
    /\ worker_units = Catalog(<<1, 2>>, <<Some(1), None>>)
    /\ profile_data = FullProfile(Nano)
    /\ distribution_data \in
          {d \in Demands(RequestTypes, ThresholdRates) : Len(d) >= 1 => d[1][1] = "R1"}
    /\ arg_slice_factor \in {1, 2}

Init ==
    /\ FreshCall
    /\ prev = None
    /\ demo = None
    /\ bucketing = None
    /\ \/ InitProfileSweep
       \/ InitCostSweep
       \/ InitDemandSweep
       \/ InitThresholdSweep
    /\ slice_factor = arg_slice_factor

Next ==
    \/ CreateSlices
    \/ CalcLoadMatrix
    \/ CreateSolver
    \/ DeclareVariables
    \/ DefineConstraints
    \/ DefineObjective
    \/ Solve
    \/ ProcessResults

Spec == Init /\ [][Next]_vars

(***************************************************************************)
(* Calls that break the data model in at least one way.                    *)
(***************************************************************************)
InvalidInput ==
    \/ \E key \in DOMAIN profile_data : key[1] \notin WorkerIdSet
    \/ \E key \in DOMAIN profile_data : key[2] \notin RequestTypes
    \/ \E i \in DOMAIN distribution_data : distribution_data[i][1] \notin RequestTypes
    \/ \E i \in DOMAIN distribution_data : distribution_data[i][2] < 0
    \/ \E j \in DOMAIN worker_units : worker_units[j].cost < 0
    \/ arg_slice_factor < 1

\* the full profile, alone or with an entry for an unknown worker id or an unknown
\* request id
DanglingProfiles ==
    {FullProfile(1),
     (<<"X", "R1">> :> 3) @@ FullProfile(1),
     (<<"A", "RX">> :> 2) @@ FullProfile(1)}

InitInvalid ==
    /\ FreshCall
    /\ prev = None
    /\ demo = None
    /\ bucketing = None
    /\ unit = 1
    /\ \E ca \in {-1, 1}, cb \in {-1, 2}, lb \in {None, Some(MaxLimit)} :
          worker_units = Catalog(<<ca, cb>>, <<Some(MaxLimit), lb>>)
    /\ profile_data \in DanglingProfiles
    /\ distribution_data \in Demands(RequestTypes \cup {"RX"}, {-1, MaxRate - 1, MaxRate})
    /\ arg_slice_factor \in -1..1
    /\ slice_factor = arg_slice_factor
    /\ InvalidInput

SpecInvalid == InitInvalid /\ [][Next]_vars

(***************************************************************************)
(* A caller that solves a demand D and then, with the same workers,        *)
(* profile and slice factor, the demand alpha * D for some alpha >= 1.     *)
(***************************************************************************)
\* the rates a demand entry takes, in 1/u rps
ScaleRates(u) == IF u = 1 THEN -1..MaxRate ELSE ThresholdRates \cup {600}

\* d2 = (num / den) * d, entry by entry
IsScaled(d, d2, num, den) ==
    /\ DOMAIN d2 = DOMAIN d
    /\ \A i \in DOMAIN d : d2[i][1] = d[i][1] /\ d2[i][2] * den = d[i][2] * num

\* the demands alpha * d, alpha >= 1, whose rates stay in the given set
ScaledDemands(d, rates) ==
    {d2 \in {[i \in DOMAIN d |-> <<d[i][1], x[i]>>] : x \in [DOMAIN d -> rates]} :
        \E num \in {x \in rates : x > 0}, den \in {x \in rates : x > 0} :
           num >= den /\ IsScaled(d, d2, num, den)}

ScaleDemand ==
    /\ pc = "done"
    /\ prev = None
    /\ prev' = Some([distribution_data |-> distribution_data, result |-> result[1]])
    /\ distribution_data' \in ScaledDemands(distribution_data, ScaleRates(unit))
    /\ pc' = "slices"
    /\ slice_factor' = arg_slice_factor
    /\ slices' = << >>
    /\ load_matrix' = << >>
    /\ solver' = NoSolver
    /\ B' = {}
    /\ A' = {}
    /\ constraints' = [assign |-> {}, cap |-> {}, limit |-> << >>]
    /\ objective' = << >>
    /\ status' = NoStatus
    /\ solution' = None
    /\ result' = None
    /\ UNCHANGED <<worker_units, profile_data, arg_slice_factor, unit, demo, bucketing>>

InitScale ==
    /\ FreshCall
    /\ prev = None
    /\ demo = None
    /\ bucketing = None
    /\ \E ca \in {-1, 1} : worker_units = Catalog(<<ca, 2>>, <<Some(MaxLimit), None>>)
    /\ \/ /\ unit = 1
          /\ profile_data = FullProfile(1)
          /\ distribution_data \in Demands(RequestTypes, ScaleRates(1))
          /\ arg_slice_factor \in 0..MaxSliceFactor
       \/ /\ unit = Nano
          /\ profile_data = FullProfile(Nano)
          /\ distribution_data \in
                {d \in Demands(RequestTypes, ScaleRates(Nano)) :
                    Len(d) >= 1 => d[1][1] = "R1"}
          /\ arg_slice_factor \in {1, 2}
    /\ slice_factor = arg_slice_factor

NextScale == Next \/ ScaleDemand

SpecScale == InitScale /\ [][NextScale]_vars

(***************************************************************************)
(* A caller that invokes solve_provisioning_ilp a second time.  Reinvoke   *)
(* records the finished call in prev and starts a fresh one on the given   *)
(* workers (profile, demand and slice factor as before).                   *)
(***************************************************************************)
Reinvoke(workers) ==
    /\ pc = "done"
    /\ prev = None
    /\ prev' = Some([worker_units |-> worker_units,
                     distribution_data |-> distribution_data,
                     result |-> result[1]])
    /\ worker_units' = workers
    /\ pc' = "slices"
    /\ slice_factor' = arg_slice_factor
    /\ slices' = << >>
    /\ load_matrix' = << >>
    /\ solver' = NoSolver
    /\ B' = {}
    /\ A' = {}
    /\ constraints' = [assign |-> {}, cap |-> {}, limit |-> << >>]
    /\ objective' = << >>
    /\ status' = NoStatus
    /\ solution' = None
    /\ result' = None
    /\ UNCHANGED <<profile_data, distribution_data, arg_slice_factor, unit, demo, bucketing>>

\* the caps below the given one; None is no cap
LowerLimits(max_limit) ==
    {Some(l) : l \in {l \in 0..MaxLimit : max_limit = None \/ l < max_limit[1]}}

\* the second call has the max_limit of one worker lowered
TightenLimit ==
    \E j \in DOMAIN worker_units :
       \E l \in LowerLimits(worker_units[j].max_limit) :
          Reinvoke([worker_units EXCEPT ![j].max_limit = l])

InitTighten ==
    /\ FreshCall
    /\ prev = None
    /\ demo = None
    /\ bucketing = None
    /\ unit = 1
    /\ \E ca \in Costs, cb \in {1, 2}, la \in Limits, lb \in Limits :
          worker_units = Catalog(<<ca, cb>>, <<la, lb>>)
    /\ profile_data \in {FullProfile(1), [key \in {<<"A", "R1">>, <<"B", "R2">>} |->
                                            BaseThroughput(key[1], 1)]}
    /\ distribution_data \in {<< <<"R1", MaxRate>>, <<"R2", MaxRate - 1>> >>,
                              << <<"R2", MaxRate>> >>, << >>}
    /\ arg_slice_factor \in {1, MaxSliceFactor}
    /\ slice_factor = arg_slice_factor

NextTighten == Next \/ TightenLimit

SpecTighten == InitTighten /\ [][NextTighten]_vars

\* the second call has the arguments of the first; nothing (no seed, no solver
\* parameter) is carried from one call to the next
Repeat == Reinvoke(worker_units)

InitRepeat ==
    /\ FreshCall
    /\ prev = None
    /\ demo = None
    /\ bucketing = None
    /\ unit = 1
    /\ \E ca \in {1, 2}, la \in {None, Some(MaxLimit)} :
          worker_units = Catalog(<<ca, 2>>, <<la, None>>)
    /\ profile_data = FullProfile(1)
    /\ distribution_data \in Demands(RequestTypes, {0, MaxRate})
    /\ arg_slice_factor \in {1, MaxSliceFactor}
    /\ slice_factor = arg_slice_factor

NextRepeat == Next \/ Repeat

SpecRepeat == InitRepeat /\ [][NextRepeat]_vars

(***************************************************************************)
(* Calls on the worked scenarios and their neighbours: one worker A that   *)
(* sustains 5 rps of R1 (scenario S1), and workers A and B that sustain 3  *)
(* and 10 rps of R1 (scenario S2).                                         *)
(***************************************************************************)
InitScenario ==
    /\ FreshCall
    /\ prev = None
    /\ demo = None
    /\ bucketing = None
    /\ unit = 1
    /\ \/ /\ worker_units = << WorkerUnit("A", 1, None) >>
          /\ profile_data = (<<"A", "R1">> :> 5)
          /\ \E r \in {5, 10} : distribution_data = << <<"R1", r>> >>
          /\ arg_slice_factor \in {1, 2}
       \/ /\ \E la \in {None, Some(1)} :
                worker_units = << WorkerUnit("A", 1, la), WorkerUnit("B", 2, None) >>
          /\ profile_data = (<<"A", "R1">> :> 3) @@ (<<"B", "R1">> :> 10)
          /\ \E r \in {2, 4, 6, 8, 10} : distribution_data = << <<"R1", r>> >>
          /\ arg_slice_factor \in 1..4
    /\ slice_factor = arg_slice_factor

SpecScenario == InitScenario /\ [][Next]_vars

(***************************************************************************)
(* run_live_ilp_demo (run_live_ilp_demo.py 93-254): fetch the distribution,*)
(* fetch the profile, call solve_provisioning_ilp, print.  A JSON object   *)
(* is a record of optional fields; a field that is None is absent.         *)
(***************************************************************************)
H100 == "h100_80gb_worker_config1"
L4 == "l4_worker_config1"

\* WORKER_UNITS_DATA as WorkerUnit objects (lines 184-197); cost in 1/100, rounded
WORKER_UNITS_DATA == << WorkerUnit(H100, 1106, None), WorkerUnit(L4, 71, None) >>

\* the default of the slice_factor parameter, which the run does not override
DefaultSliceFactor == 2

\* obj.get(key, default)
Get(field, default) == IF field = None THEN default ELSE field[1]

\* what run_grpcurl returns: None on a failed call or undecodable output, else the
\* decoded object
RateItems ==
    {[requestTypeId |-> id, rate |-> rate] :
        id \in {None, Some("R1")}, rate \in {None, Some(0), Some(MaxRate)}}
       \ {[requestTypeId |-> None, rate |-> Some(0)], [requestTypeId |-> None, rate |-> None]}

ListsUpTo2(S) == {<< >>} \cup {<<x>> : x \in S} \cup {<<x, y>> : x \in S, y \in S}

RdsResponses ==
    {None} \cup
    {Some([requestTypes |-> rt, rateDistribution |-> rd]) :
        rt \in {None, Some(<< >>), Some(<<"R1">>)},
        rd \in {None} \cup {Some(l) : l \in ListsUpTo2(RateItems)}}

ProfileEntries ==
    {[workerTypeId |-> Some(w), requestTypeId |-> Some("R1"),
      maxThroughputRps |-> t, status |-> st] :
        w \in {H100, L4}, t \in {None, Some(2)},
        st \in {None, Some("OK"), Some("OK_USING_HIGHEST_RATE"), Some("FAILED")}}
    \cup {[workerTypeId |-> None, requestTypeId |-> Some("R1"),
           maxThroughputRps |-> Some(2), status |-> Some("OK")],
          [workerTypeId |-> Some(L4), requestTypeId |-> None,
           maxThroughputRps |-> Some(2), status |-> Some("OK")]}

PpsResponses ==
    {None, Some([performanceProfile |-> None]),
     Some([performanceProfile |-> Some([entries |-> None])])} \cup
    {Some([performanceProfile |-> Some([entries |-> Some(l)])]) :
        l \in ListsUpTo2(ProfileEntries)}

\* `not rds_response`: None or an object without fields
NoRdsResponse(response) ==
    response = None \/ (response[1].requestTypes = None /\ response[1].rateDistribution = None)

\* mutant: only a failed call counts as no response
NoPpsResponse_OnlyNone(response) == response = None

\* `not pps_response`
NoPpsResponse(response) == response = None \/ response[1].performanceProfile = None

\* dict[key] = value on an insertion-ordered dict
Put(dict, key, value) ==
    IF \E i \in DOMAIN dict : dict[i][1] = key
    THEN [i \in DOMAIN dict |-> IF dict[i][1] = key THEN <<key, value>> ELSE dict[i]]
    ELSE Append(dict, <<key, value>>)

\* lines 118-125: the loop over rateDistribution, from item i on
RECURSIVE FoldDistribution(_, _, _)
FoldDistribution(items, i, acc) ==
    IF i > Len(items) THEN acc
    ELSE LET req_id == items[i].requestTypeId
             rate   == items[i].rate
         IN  FoldDistribution(items, i + 1,
                IF req_id # None /\ rate # None THEN Put(acc, req_id[1], rate[1])
                ELSE acc)

\* mutant: the status of the entry is not looked at
StoredThroughput_AnyStatus(entry) == Get(entry.maxThroughputRps, 0)

\* lines 161-171: the throughput stored for one entry
StoredThroughput(entry) ==
    LET throughput == Get(entry.maxThroughputRps, 0)
        entry_status == Get(entry.status, "STATUS_UNSPECIFIED")
    IN  IF entry_status \in {"OK", "OK_USING_HIGHEST_RATE"} THEN throughput ELSE 0

\* lines 157-177: the loop over the entries, from entry i on
RECURSIVE FoldProfile(_, _, _)
FoldProfile(entries, i, acc) ==
    IF i > Len(entries) THEN acc
    ELSE LET worker_id == entries[i].workerTypeId
             req_id    == entries[i].requestTypeId
         IN  FoldProfile(entries, i + 1,
                IF worker_id # None /\ req_id # None
                THEN (<<worker_id[1], req_id[1]>> :> StoredThroughput(entries[i])) @@ acc
                ELSE acc)

solverVars == <<worker_units, profile_data, distribution_data, arg_slice_factor,
                slice_factor, unit, pc, slices, load_matrix, solver, B, A,
                constraints, objective, status, solution, result>>

\* lines 97-132: step 1, with its three early returns
FetchDistribution ==
    /\ demo # None
    /\ demo[1].pc = "rds"
    /\ \E rds_response \in RdsResponses :
          LET request_types_from_rds ==
                  IF NoRdsResponse(rds_response) THEN << >>
                  ELSE Get(rds_response[1].requestTypes, << >>)
              distribution_data_for_ilp ==
                  IF NoRdsResponse(rds_response) THEN << >>
                  ELSE FoldDistribution(Get(rds_response[1].rateDistribution, << >>),
                                        1, << >>)
              returns ==
                  \/ NoRdsResponse(rds_response)
                  \/ request_types_from_rds = << >>
                  \/ distribution_data_for_ilp = << >>
          IN  demo' = Some([demo[1] EXCEPT
                  !.pc = IF returns THEN "exit" ELSE "pps",
                  !.rds_response = rds_response,
                  !.request_types_from_rds = request_types_from_rds,
                  !.distribution_data_for_ilp = distribution_data_for_ilp,
                  !.calls = Append(@, "RDS")])
    /\ UNCHANGED <<solverVars, prev, bucketing>>

\* lines 134-179: step 2, with its early return
FetchProfile ==
    /\ demo # None
    /\ demo[1].pc = "pps"
    /\ \E pps_response \in PpsResponses :
          LET has_entries ==
                  /\ ~NoPpsResponse(pps_response)
                  /\ pps_response[1].performanceProfile # None
                  /\ pps_response[1].performanceProfile[1].entries # None
              profile_data_for_ilp ==
                  IF has_entries
                  THEN FoldProfile(pps_response[1].performanceProfile[1].entries[1],
                                   1, << >>)
                  ELSE << >>
          IN  demo' = Some([demo[1] EXCEPT
                  !.pc = IF NoPpsResponse(pps_response) THEN "exit" ELSE "ilp",
                  !.pps_response = pps_response,
                  !.profile_data_for_ilp = profile_data_for_ilp,
                  !.calls = Append(@, "PPS")])
    /\ UNCHANGED <<solverVars, prev, bucketing>>

\* lines 182-214: step 3, the call of solve_provisioning_ilp
CallSolver ==
    /\ demo # None
    /\ demo[1].pc = "ilp"
    /\ demo' = Some([demo[1] EXCEPT !.pc = "solving", !.calls = Append(@, "ILP")])
    /\ worker_units' = WORKER_UNITS_DATA
    /\ profile_data' = demo[1].profile_data_for_ilp
    /\ distribution_data' = demo[1].distribution_data_for_ilp
    /\ arg_slice_factor' = DefaultSliceFactor
    /\ slice_factor' = DefaultSliceFactor
    /\ pc' = "slices"
    /\ UNCHANGED <<unit, slices, load_matrix, solver, B, A, constraints, objective,
                   status, solution, result, prev, bucketing>>

\* lines 216-254: step 4, after the call has returned
PrintResults ==
    /\ demo # None
    /\ demo[1].pc = "solving"
    /\ pc = "done"
    /\ demo' = Some([demo[1] EXCEPT !.pc = "exit"])
    /\ UNCHANGED <<solverVars, prev, bucketing>>

InitDemo ==
    /\ pc = "idle"
    /\ slices = << >>
    /\ load_matrix = << >>
    /\ solver = NoSolver
    /\ B = {}
    /\ A = {}
    /\ constraints = [assign |-> {}, cap |-> {}, limit |-> << >>]
    /\ objective = << >>
    /\ status = NoStatus
    /\ solution = None
    /\ result = None
    /\ prev = None
    /\ unit = 1
    /\ worker_units = << >>
    /\ profile_data = << >>
    /\ distribution_data = << >>
    /\ arg_slice_factor = DefaultSliceFactor
    /\ slice_factor = DefaultSliceFactor
    /\ demo = Some([pc |-> "rds", rds_response |-> None,
                    request_types_from_rds |-> << >>,
                    distribution_data_for_ilp |-> << >>,
                    pps_response |-> None, profile_data_for_ilp |-> << >>,
                    calls |-> << >>])
    /\ bucketing = None

NextDemo == Next \/ FetchDistribution \/ FetchProfile \/ CallSolver \/ PrintResults

SpecDemo == InitDemo /\ [][NextDemo]_vars

(***************************************************************************)
(* A backend that reports OPTIMAL with assignment values that are not      *)
(* integral: one slice with two candidate workers has the value 1/2 on     *)
(* both, the rest of the solution is an optimal one.                       *)
(***************************************************************************)
FractionalSolutions ==
    UNION {{[sol EXCEPT !.A[sid] = {}, !.half[sid] = Candidates(sid)] :
              sol \in OptimalSolutions} :
           sid \in {sid \in {key[1] : key \in A} : Cardinality(Candidates(sid)) = 2}}

FractionalSolve ==
    /\ pc = "solve"
    /\ BackendStatus = "OPTIMAL"
    /\ status' = "OPTIMAL"
    /\ \E sol \in FractionalSolutions : solution' = Some(sol)
    /\ pc' = "results"
    /\ UNCHANGED <<inputs, slices, load_matrix, solver, B, A, constraints,
                   objective, result, prev, demo, bucketing>>

InitFractional ==
    /\ FreshCall
    /\ prev = None
    /\ demo = None
    /\ bucketing = None
    /\ unit = 1
    /\ \E ca \in {1, 2}, la \in {None, Some(MaxLimit)} :
          worker_units = Catalog(<<ca, 2>>, <<la, None>>)
    /\ profile_data \in {FullProfile(1), [key \in {<<"A", "R1">>, <<"B", "R2">>} |->
                                            BaseThroughput(key[1], 1)]}
    /\ distribution_data \in Demands(RequestTypes, {0, MaxRate})
    /\ arg_slice_factor \in {1, MaxSliceFactor}
    /\ slice_factor = arg_slice_factor

NextFractional == Next \/ FractionalSolve

SpecFractional == InitFractional /\ [][NextFractional]_vars

(***************************************************************************)
(* _get_power_of_two_bucket (process_dataset.py 11-18).  Python integers   *)
(* are unbounded, so an integer is a record [exp, off]: the integer off    *)
(* when exp = 0, and 2^exp - off, with a small off, for an exp above       *)
(* PlainExp.                                                               *)
(***************************************************************************)
MaxN == 70
PlainExp == 20
MaxExp == 53
MaxOff == 5

\* the precision of a float and ln 2 in millionths: what math.log2 rounds with
MantissaBits == 53
Ln2Micro == 693147
Micro == 1000000

RECURSIVE Pow2(_)
Pow2(k) == IF k = 0 THEN 1 ELSE 2 * Pow2(k - 1)

Plain(v) == [exp |-> 0, off |-> v]

\* 2^m - d
Pow2Minus(m, d) == IF m <= PlainExp THEN Plain(Pow2(m) - d) ELSE [exp |-> m, off |-> d]

\* a <= b
Leq(a, b) ==
    IF a.exp = 0 /\ b.exp = 0 THEN a.off <= b.off
    ELSE IF a.exp = 0 THEN TRUE
    ELSE IF b.exp = 0 THEN FALSE
    ELSE IF a.exp = b.exp THEN a.off >= b.off
    ELSE a.exp < b.exp

\* the exact floor of log2 v, v >= 1
RECURSIVE FloorLog2(_)
FloorLog2(v) == IF v < 2 THEN 0 ELSE 1 + FloorLog2(v \div 2)

\* the exact floor of log2 n, n >= 1
ExactFloorLog2(n) ==
    IF n.exp = 0 THEN FloorLog2(n.off)
    ELSE IF n.off = 0 THEN n.exp ELSE n.exp - 1

\* math.log2(2^m - d) is the float nearest to m - d / (2^m ln 2); the floats just
\* below m are 2^(j - 52) apart, for 2^j < m <= 2^(j + 1), so the result is m itself
\* when d / ln 2 < 2^(m + j - 53)
Log2RoundsToInteger(m, d) ==
    LET e == m + FloorLog2(m - 1) - MantissaBits
    IN  e >= 0 /\ d * Micro < Ln2Micro * Pow2(e)

\* math.floor(math.log2(n)); below 2^PlainExp the float is nowhere near the next
\* integer and the floor is exact
FloorOfLog2(n) ==
    IF n.exp = 0 THEN FloorLog2(n.off)
    ELSE IF n.off = 0 \/ Log2RoundsToInteger(n.exp, n.off) THEN n.exp
    ELSE n.exp - 1

\* the bucket "lower_bound-upper_bound" as the pair of its bounds
GetPowerOfTwoBucket(n) ==
    IF Leq(n, Plain(1)) THEN <<Plain(0), Plain(1)>>
    ELSE LET k == FloorOfLog2(n)
             lower_bound == Pow2Minus(k, 0)
             upper_bound == Pow2Minus(k + 1, 1)
         IN  <<lower_bound, upper_bound>>

BucketInputs ==
    {Plain(v) : v \in -2..MaxN}
       \cup {Pow2Minus(m, d) : m \in (PlainExp + 1)..MaxExp, d \in 0..MaxOff}

CallGetPowerOfTwoBucket ==
    /\ bucketing # None
    /\ bucketing[1].bucket = None
    /\ bucketing' = Some([bucketing[1] EXCEPT
                             !.bucket = Some(GetPowerOfTwoBucket(bucketing[1].n))])
    /\ UNCHANGED <<solverVars, prev, demo>>

InitBucket ==
    /\ FreshCall
    /\ prev = None
    /\ demo = None
    /\ unit = 1
    /\ worker_units = << >>
    /\ profile_data = << >>
    /\ distribution_data = << >>
    /\ arg_slice_factor = DefaultSliceFactor
    /\ slice_factor = DefaultSliceFactor
    /\ \E n \in BucketInputs : bucketing = Some([n |-> n, bucket |-> None])

SpecBucket == InitBucket /\ [][CallGetPowerOfTwoBucket]_vars

(***************************************************************************)
(* What a finished call returned.                                          *)
(***************************************************************************)
Done == pc = "done"
HasPlan == pc = "done" /\ result[1].counts # None
Counts == result[1].counts[1]
Assignments == result[1].assignments[1]
ReturnedSlices == result[1].slices

\* P[w, reqType] > 0
Capable(wid, req) ==
    <<wid, req>> \in DOMAIN profile_data /\ profile_data[<<wid, req>>] > 0

Assignable(s) == \E wid \in WorkerIdSet : Capable(wid, s.request_type_id)

\* the slices of the returned list that the plan assigns to the worker
AssignedTo(wid) ==
    {i \in DOMAIN ReturnedSlices :
        /\ ReturnedSlices[i].id \in DOMAIN Assignments
        /\ Assignments[ReturnedSlices[i].id] = wid}

\* sum of s.portion / P[w, s.reqType] over the slices assigned to w
AssignedLoad(wid) ==
    QSum([i \in AssignedTo(wid) |->
             Q(ReturnedSlices[i].rate_portion.num,
               ReturnedSlices[i].rate_portion.den
                  * profile_data[<<wid, ReturnedSlices[i].request_type_id>>])],
         AssignedTo(wid))

TotalCost(counts) == Sum([j \in DOMAIN worker_units |->
                            worker_units[j].cost * counts[worker_units[j].id]],
                         DOMAIN worker_units)

(***************************************************************************)
(* C1.  Assignment totality: in every returned plan, every slice of the    *)
(* returned list that some worker of the catalog can serve (profile > 0)   *)
(* is a key of assignments, mapped to one worker id of the catalog.        *)
(***************************************************************************)
C1_AssignmentTotality ==
    HasPlan =>
        \A i \in DOMAIN ReturnedSlices :
            Assignable(ReturnedSlices[i]) =>
                /\ ReturnedSlices[i].id \in DOMAIN Assignments
                /\ Assignments[ReturnedSlices[i].id] \in WorkerIdSet

\* a solved plan of four slices, each with two capable workers, that uses both
C1_Witness ==
    /\ HasPlan
    /\ status = "OPTIMAL"
    /\ Len(ReturnedSlices) = 4
    /\ \A i \in DOMAIN ReturnedSlices :
          \A wid \in WorkerIdSet : Capable(wid, ReturnedSlices[i].request_type_id)
    /\ \A wid \in WorkerIdSet : AssignedTo(wid) # {}

(***************************************************************************)
(* C2.  Capacity respected: in every returned plan, for every worker, the  *)
(* loads portion / profile of the slices assigned to it sum to at most     *)
(* counts[w] + 1e-6 (and every slice is assigned to a worker with a        *)
(* profile > 0, so that the load is defined).                              *)
(***************************************************************************)
C2_CapacityRespected ==
    HasPlan =>
        \A wid \in WorkerIdSet :
            /\ \A i \in AssignedTo(wid) :
                  Capable(wid, ReturnedSlices[i].request_type_id)
            /\ QLeq(AssignedLoad(wid),
                    [num |-> Counts[wid] * CountEpsInv + 1, den |-> CountEpsInv])

\* a plan in which one worker carries a load between 1 and 2 on 2 instances
\* while the other worker carries load too
C2_Witness ==
    /\ HasPlan
    /\ \E wid \in WorkerIdSet :
          /\ Counts[wid] = 2
          /\ ~QLeq(AssignedLoad(wid), [num |-> 1, den |-> 1])
          /\ \E other \in WorkerIdSet \ {wid} :
                Counts[other] >= 1 /\ AssignedTo(other) # {}

(***************************************************************************)
(* C3.  Cap respected: in every returned plan a worker with max_limit set  *)
(* has counts <= max_limit, and counts = 0 when max_limit = 0; a worker    *)
(* with max_limit None gets no Limit constraint.                           *)
(***************************************************************************)
C3_CapRespected ==
    /\ HasPlan =>
          \A j \in DOMAIN worker_units :
             LET w == worker_units[j]
             IN  /\ w.max_limit # None => Counts[w.id] <= w.max_limit[1]
                 /\ w.max_limit = Some(0) => Counts[w.id] = 0
    /\ \A j \in DOMAIN worker_units :
          worker_units[j].max_limit = None =>
              worker_units[j].id \notin DOMAIN constraints.limit

\* the cheaper worker can serve every slice but is capped at 0, and the plan puts
\* two instances on the uncapped worker
C3_Witness ==
    /\ HasPlan
    /\ status = "OPTIMAL"
    /\ \E j, k \in DOMAIN worker_units :
          /\ worker_units[j].max_limit = Some(0)
          /\ worker_units[j].cost < worker_units[k].cost
          /\ \A i \in DOMAIN ReturnedSlices :
                Capable(worker_units[j].id, ReturnedSlices[i].request_type_id)
          /\ Counts[worker_units[j].id] = 0
          /\ worker_units[k].max_limit = None
          /\ Counts[worker_units[k].id] >= 2

(***************************************************************************)
(* The plans of the problem statement, from the inputs and the returned    *)
(* slices alone: an assignment maps every assignable slice to a capable    *)
(* worker, counts are integers in 0..MaxCount that cover the load of every *)
(* worker and respect the caps.                                            *)
(***************************************************************************)
CapableWorkers(i) ==
    {wid \in WorkerIdSet : Capable(wid, ReturnedSlices[i].request_type_id)}

RECURSIVE PlanAssignments(_)
PlanAssignments(S) ==
    IF S = {} THEN {<< >>}
    ELSE LET i == CHOOSE i \in S : TRUE
         IN  {(i :> wid) @@ rest :
                 wid \in CapableWorkers(i), rest \in PlanAssignments(S \ {i})}

AssignableSlices == {i \in DOMAIN ReturnedSlices : Assignable(ReturnedSlices[i])}

\* the load an assignment f puts on the worker
PlanLoad(f, wid) ==
    LET on == {i \in DOMAIN f : f[i] = wid}
    IN  QSum([i \in on |->
                 Q(ReturnedSlices[i].rate_portion.num,
                   ReturnedSlices[i].rate_portion.den
                      * profile_data[<<wid, ReturnedSlices[i].request_type_id>>])],
             on)

WithinCap(wid, n) ==
    WorkerOf(wid).max_limit = None \/ n <= WorkerOf(wid).max_limit[1]

\* the instances an assignment f needs of each worker: the least integers that
\* cover its loads
PlanNeed(f) ==
    [wid \in WorkerIdSet |->
        LET l == PlanLoad(f, wid) IN Ceil(l.num, l.den)]

\* the count vectors that make f a plan
PlanCounts(f) ==
    LET need == PlanNeed(f)
    IN  {c \in [WorkerIdSet -> 0..MaxCount] :
            \A wid \in WorkerIdSet : need[wid] <= c[wid] /\ WithinCap(wid, c[wid])}

(***************************************************************************)
(* C4.  Cost optimality: the total cost of a returned plan is at most the  *)
(* total cost of every plan on the same slices, whatever its assignment    *)
(* and counts; the plans that differ from the returned one in the worker   *)
(* of a single slice are among them.  (Stated contrapositively: no count   *)
(* vector that costs less than the returned one is the counts of a plan.)  *)
(***************************************************************************)
C4_CostOptimality ==
    HasPlan =>
        LET needs == {PlanNeed(f) : f \in PlanAssignments(AssignableSlices)}
        IN  \A c \in [WorkerIdSet -> 0..MaxCount] :
               TotalCost(c) < TotalCost(Counts) =>
                  ~ /\ \A wid \in WorkerIdSet : WithinCap(wid, c[wid])
                    /\ \E need \in needs : \A wid \in WorkerIdSet : need[wid] <= c[wid]

\* a solved plan that uses both workers, with a feasible single-slice move that
\* costs strictly more
C4_Witness ==
    /\ HasPlan
    /\ status = "OPTIMAL"
    /\ \A wid \in WorkerIdSet : Counts[wid] >= 1
    /\ \E f \in PlanAssignments(AssignableSlices) :
          /\ Cardinality({i \in DOMAIN f :
                             f[i] # Assignments[ReturnedSlices[i].id]}) = 1
          /\ PlanCounts(f) # {}
          /\ \A c \in PlanCounts(f) : TotalCost(c) > TotalCost(Counts)

(***************************************************************************)
(* C5.  Empty demand gives the zero plan: when the demand map is empty or  *)
(* every rate is <= 0, the call returns counts 0 for every worker of the   *)
(* catalog, assignments {} and no slices, and no solver is ever created,   *)
(* no variable declared and Solve never called.                            *)
(***************************************************************************)
NoDemand == \A i \in DOMAIN distribution_data : distribution_data[i][2] <= 0

C5_EmptyDemandZeroPlan ==
    NoDemand =>
        /\ pc \in {"slices", "done"}
        /\ solver = NoSolver
        /\ B = {} /\ A = {}
        /\ status = NoStatus
        /\ Done => result = Some([counts      |-> Some([wid \in WorkerIdSet |-> 0]),
                                  assignments |-> Some(<< >>),
                                  slices      |-> << >>])

\* a finished call on a demand of one negative and one zero rate
C5_Witness ==
    /\ Done
    /\ Len(distribution_data) = 2
    /\ \E i, j \in DOMAIN distribution_data :
          distribution_data[i][2] < 0 /\ distribution_data[j][2] = 0
    /\ HasPlan
    /\ \A wid \in WorkerIdSet : Counts[wid] = 0
    /\ ReturnedSlices = << >>

(***************************************************************************)
(* C6.  Unassignable slice is a failure: a finished call that emitted a    *)
(* slice no worker of the catalog can serve returns no plan.               *)
(* The code warns, adds no constraint for the slice, calls the backend and *)
(* returns the plan of the remaining slices.                               *)
(***************************************************************************)
C6_UnassignableIsFailure ==
    (Done /\ \E i \in DOMAIN slices : ~Assignable(slices[i])) =>
        result[1].counts = None /\ result[1].assignments = None

(***************************************************************************)
(* C7.  Only OPTIMAL yields a plan, whole or not at all: a finished call   *)
(* has counts None iff assignments None; for every backend status other    *)
(* than OPTIMAL, and when CreateSolver returned None, it returned          *)
(* (None, None, slices) with all the slices emitted; a plan comes with     *)
(* status OPTIMAL or, without any backend call, from an empty slice list.  *)
(***************************************************************************)
C7_OnlyOptimalYieldsPlan ==
    Done =>
        /\ result[1].counts = None <=> result[1].assignments = None
        /\ (solver = SolverNone \/ status \in Statuses \ {"OPTIMAL"}) =>
              /\ result[1].counts = None
              /\ result[1].assignments = None
              /\ result[1].slices = slices
              /\ slices # << >>
        /\ result[1].counts # None =>
              \/ status = "OPTIMAL"
              \/ status = NoStatus /\ solver = NoSolver /\ slices = << >>

\* the backend proved a model of four slices infeasible
C7_Witness ==
    /\ Done
    /\ status = "INFEASIBLE"
    /\ Len(slices) = 4
    /\ result = Some([counts |-> None, assignments |-> None, slices |-> slices])

(***************************************************************************)
(* C8.  Slice ids are stable and contiguous: once the slicer has run, the  *)
(* i-th slice (from 0) has id i, the slices follow the order of the demand *)
(* map with the slices of a request type adjacent; the returned list is    *)
(* that list and every key of assignments is one of its ids.               *)
(***************************************************************************)
DemandPosition(req) ==
    CHOOSE p \in DOMAIN distribution_data : distribution_data[p][1] = req

C8_SliceIds ==
    /\ \A i \in DOMAIN slices : slices[i].id = i - 1
    /\ \A i, j \in DOMAIN slices :
          i < j => DemandPosition(slices[i].request_type_id)
                      <= DemandPosition(slices[j].request_type_id)
    /\ \A i, j, k \in DOMAIN slices :
          (i < j /\ j < k /\ slices[i].request_type_id = slices[k].request_type_id)
             => slices[j].request_type_id = slices[i].request_type_id
    /\ Done => /\ result[1].slices = slices
               /\ result[1].assignments # None =>
                     DOMAIN Assignments \subseteq {slices[i].id : i \in DOMAIN slices}

\* a plan over four slices of two request types, every slice assigned
C8_Witness ==
    /\ HasPlan
    /\ Len(ReturnedSlices) = 4
    /\ ReturnedSlices[1].request_type_id # ReturnedSlices[4].request_type_id
    /\ DOMAIN Assignments = 0..3

PositiveEntries == {p \in DOMAIN distribution_data : distribution_data[p][2] > 0}

BothPlans == prev # None /\ HasPlan /\ prev[1].result.counts # None
PrevCost == TotalCost(prev[1].result.counts[1])

C10_DemandMonotone == BothPlans => TotalCost(Counts) >= PrevCost

(***************************************************************************)
(* C10, amended.  The total cost does not decrease from D to alpha * D     *)
(* provided no entry that D emits as one coarsened slice is split for      *)
(* alpha * D (each entry gives no slice for D or the same number of slices *)
(* for both), and provided the costs are non-negative or D gives at least  *)
(* one slice.                                                              *)
(***************************************************************************)
SameSlicing ==
    \A i \in DOMAIN distribution_data :
        EntrySliceCount(prev[1].distribution_data[i][2], arg_slice_factor, unit)
           \in {0, EntrySliceCount(distribution_data[i][2], arg_slice_factor, unit)}

NonNegativeCosts == \A j \in DOMAIN worker_units : worker_units[j].cost >= 0

C10_DemandMonotoneSameSlicing ==
    (/\ BothPlans
     /\ SameSlicing
     /\ NonNegativeCosts \/ prev[1].result.slices # << >>)
        => TotalCost(Counts) >= PrevCost

\* a demand that grew strictly, sliced alike, and whose plan costs strictly more
C10_Witness ==
    /\ BothPlans
    /\ SameSlicing
    /\ prev[1].result.slices # << >>
    /\ distribution_data # prev[1].distribution_data
    /\ Len(ReturnedSlices) = Len(prev[1].result.slices)
    /\ TotalCost(Counts) > PrevCost
    /\ PrevCost > 0

(***************************************************************************)
(* C11.  Cap tightening: when a call is repeated with the max_limit of one *)
(* worker lowered (a cap added, or a smaller cap), the second call returns *)
(* no plan or a plan whose total cost is not lower than that of the plan   *)
(* of the first call.                                                      *)
(***************************************************************************)
C11_CapTighteningMonotone ==
    (prev # None /\ HasPlan /\ prev[1].result.counts # None)
        => TotalCost(Counts) >= TotalCost(prev[1].result.counts[1])

\* a lowered cap that made the plan strictly more expensive
C11_Witness ==
    /\ prev # None
    /\ HasPlan
    /\ prev[1].result.counts # None
    /\ \E j \in DOMAIN worker_units :
          /\ prev[1].worker_units[j].max_limit # None
          /\ worker_units[j].max_limit[1] < prev[1].worker_units[j].max_limit[1]
          /\ Counts[worker_units[j].id] = worker_units[j].max_limit[1]
    /\ TotalCost(Counts) > TotalCost(prev[1].result.counts[1])

(***************************************************************************)
(* C12.  Determinism: two calls on identical workers, profile, demand and  *)
(* slice factor that both return a plan return the same counts,            *)
(* assignments and slices, also when several minimum-cost plans exist.     *)
(***************************************************************************)
C12_SameInputsSamePlan ==
    (prev # None /\ HasPlan /\ prev[1].result.counts # None)
        => result[1] = prev[1].result

(***************************************************************************)
(* C13, as claimed.  Scenario S2: the plan has counts A = 1 and B = 1, one *)
(* slice of 2 rps on A, the other three slices on B, and total cost 3.     *)
(***************************************************************************)
ScenarioS2 ==
    /\ unit = 1
    /\ worker_units = << WorkerUnit("A", 1, Some(1)), WorkerUnit("B", 2, None) >>
    /\ profile_data = (<<"A", "R1">> :> 3) @@ (<<"B", "R1">> :> 10)
    /\ distribution_data = << <<"R1", 8>> >>
    /\ arg_slice_factor = 4

C13_ScenarioS2SplitsOverAAndB ==
    (ScenarioS2 /\ HasPlan) =>
        /\ Counts = [wid \in {"A", "B"} |-> 1]
        /\ Cardinality(AssignedTo("A")) = 1
        /\ Cardinality(AssignedTo("B")) = 3
        /\ TotalCost(Counts) = 3

(***************************************************************************)
(* C13, amended.  Scenario S2: the four slices of 2 rps load one B         *)
(* instance to 0.8, so the plan has counts A = 0 and B = 1, all four       *)
(* slices on B, and total cost 2; and the plan is returned whenever the    *)
(* backend reports OPTIMAL.                                                *)
(***************************************************************************)
C13_ScenarioS2AllOnB ==
    (ScenarioS2 /\ Done) =>
        /\ Len(ReturnedSlices) = 4
        /\ \A i \in DOMAIN ReturnedSlices :
              ReturnedSlices[i].rate_portion = [num |-> 2, den |-> 1]
        /\ status = "OPTIMAL" => HasPlan
        /\ HasPlan =>
              /\ Counts = ("A" :> 0) @@ ("B" :> 1)
              /\ AssignedTo("A") = {}
              /\ Cardinality(AssignedTo("B")) = 4
              /\ TotalCost(Counts) = 2

C13_Witness == ScenarioS2 /\ HasPlan /\ status = "OPTIMAL"

(***************************************************************************)
(* C14, as claimed.  Once the profile is built, every entry of the         *)
(* profiler response with a status other than OK or OK_USING_HIGHEST_RATE  *)
(* (or with no status) has throughput 0 stored for its pair, and no plan   *)
(* returned afterwards assigns a slice of that request type to that        *)
(* worker; an entry with one of the two statuses has its maxThroughputRps  *)
(* stored.                                                                 *)
(***************************************************************************)
ProfileBuilt ==
    /\ demo # None
    /\ demo[1].pc \in {"ilp", "solving", "exit"}
    /\ "PPS" \in {demo[1].calls[i] : i \in DOMAIN demo[1].calls}
    /\ ~NoPpsResponse(demo[1].pps_response)

ResponseEntries ==
    IF demo[1].pps_response[1].performanceProfile[1].entries = None THEN << >>
    ELSE demo[1].pps_response[1].performanceProfile[1].entries[1]

HasIds(entry) == entry.workerTypeId # None /\ entry.requestTypeId # None
PairOf(entry) == <<entry.workerTypeId[1], entry.requestTypeId[1]>>
StatusOk(entry) == entry.status \in {Some("OK"), Some("OK_USING_HIGHEST_RATE")}

\* no slice of the pair's request type is assigned to the pair's worker
NeverAssigned(pair) ==
    HasPlan => \A i \in AssignedTo(pair[1]) : ReturnedSlices[i].request_type_id # pair[2]

EntryHonoured(entry) ==
    /\ PairOf(entry) \in DOMAIN demo[1].profile_data_for_ilp
    /\ IF StatusOk(entry)
       THEN demo[1].profile_data_for_ilp[PairOf(entry)] =
               (IF entry.maxThroughputRps = None THEN 0 ELSE entry.maxThroughputRps[1])
       ELSE /\ demo[1].profile_data_for_ilp[PairOf(entry)] = 0
            /\ NeverAssigned(PairOf(entry))

C14_EveryEntryHonoured ==
    ProfileBuilt =>
        \A i \in DOMAIN ResponseEntries :
            HasIds(ResponseEntries[i]) => EntryHonoured(ResponseEntries[i])

(***************************************************************************)
(* C14, amended.  The profile is a dict, so of several entries for the     *)
(* same (worker, request type) pair the last one decides: the last entry   *)
(* of a pair has its maxThroughputRps (0 when absent) stored if its status *)
(* is OK or OK_USING_HIGHEST_RATE, and 0 otherwise; entries without a      *)
(* worker id or request id store nothing; and no returned plan assigns a   *)
(* slice to a worker whose stored throughput for the request type is 0.    *)
(***************************************************************************)
LastOfPair(i) ==
    /\ HasIds(ResponseEntries[i])
    /\ \A j \in DOMAIN ResponseEntries :
          (j > i /\ HasIds(ResponseEntries[j]))
             => PairOf(ResponseEntries[j]) # PairOf(ResponseEntries[i])

C14_LastEntryHonoured ==
    ProfileBuilt =>
        /\ \A i \in DOMAIN ResponseEntries :
              LastOfPair(i) => EntryHonoured(ResponseEntries[i])
        /\ DOMAIN demo[1].profile_data_for_ilp =
              {PairOf(ResponseEntries[i]) :
                  i \in {i \in DOMAIN ResponseEntries : HasIds(ResponseEntries[i])}}
        /\ pc # "idle" => profile_data = demo[1].profile_data_for_ilp
        /\ \A pair \in DOMAIN demo[1].profile_data_for_ilp :
              demo[1].profile_data_for_ilp[pair] = 0 => NeverAssigned(pair)

\* a plan that puts the slices on the expensive worker because the last entry of the
\* cheap one reports a throughput with a failure status
C14_Witness ==
    /\ ProfileBuilt
    /\ HasPlan
    /\ AssignedTo(H100) # {}
    /\ \E i \in DOMAIN ResponseEntries :
          /\ LastOfPair(i)
          /\ PairOf(ResponseEntries[i]) = <<L4, "R1">>
          /\ ResponseEntries[i].status = Some("FAILED")
          /\ ResponseEntries[i].maxThroughputRps # None

(***************************************************************************)
(* C15.  The bucket function returns "0-1" for every integer n <= 1, and   *)
(* for every integer n >= 2 the bucket from lo = 2^floor(log2 n) to        *)
(* hi = 2^(floor(log2 n) + 1) - 1, so that lo <= n <= hi.                  *)
(***************************************************************************)
C15_BucketContainsN ==
    (bucketing # None /\ bucketing[1].bucket # None) =>
        LET n == bucketing[1].n
            bucket == bucketing[1].bucket[1]
        IN  IF Leq(n, Plain(1)) THEN bucket = <<Plain(0), Plain(1)>>
            ELSE /\ bucket = <<Pow2Minus(ExactFloorLog2(n), 0),
                               Pow2Minus(ExactFloorLog2(n) + 1, 1)>>
                 /\ Leq(bucket[1], n)
                 /\ Leq(n, bucket[2])

(***************************************************************************)
(* C16.  Fetch-then-solve ordering of run_live_ilp_demo: the calls made so *)
(* far are a prefix of distribution fetch, profile fetch, optimizer, so    *)
(* each fetch is over before the next call starts and the optimizer is     *)
(* called at most once; after a distribution fetch that failed or gave no  *)
(* request types or no usable rate entry, neither the profiler nor the     *)
(* optimizer is called; after a failed profile fetch the optimizer is not  *)
(* called; and the optimizer runs only once called, on what was fetched.   *)
(***************************************************************************)
Calls == demo[1].calls
Called(c) == \E i \in DOMAIN Calls : Calls[i] = c

DistributionFetchFailed ==
    /\ Called("RDS")
    /\ \/ demo[1].rds_response = None
       \/ demo[1].rds_response[1].requestTypes \in {None, Some(<< >>)}
       \/ demo[1].rds_response[1].rateDistribution = None
       \/ \A i \in DOMAIN demo[1].rds_response[1].rateDistribution[1] :
             LET item == demo[1].rds_response[1].rateDistribution[1][i]
             IN  item.requestTypeId = None \/ item.rate = None

ProfileFetchFailed ==
    /\ Called("PPS")
    /\ \/ demo[1].pps_response = None
       \/ demo[1].pps_response[1].performanceProfile = None

C16_FetchThenSolve ==
    demo # None =>
        /\ Calls \in {<< >>, <<"RDS">>, <<"RDS", "PPS">>, <<"RDS", "PPS", "ILP">>}
        /\ DistributionFetchFailed => (Calls = <<"RDS">> /\ demo[1].pc = "exit")
        /\ ProfileFetchFailed => (Calls = <<"RDS", "PPS">> /\ demo[1].pc = "exit")
        /\ pc # "idle" <=> Called("ILP")
        /\ Called("ILP") =>
              /\ worker_units = WORKER_UNITS_DATA
              /\ distribution_data = demo[1].distribution_data_for_ilp
              /\ profile_data = demo[1].profile_data_for_ilp
        /\ demo[1].pc = "exit" =>
              (Called("ILP") \/ DistributionFetchFailed \/ ProfileFetchFailed)

\* a finished run that made the three calls and got a plan for a positive demand
C16_Witness ==
    /\ demo # None
    /\ demo[1].pc = "exit"
    /\ Calls = <<"RDS", "PPS", "ILP">>
    /\ HasPlan
    /\ ReturnedSlices # << >>

(***************************************************************************)
(* C17.  The slicer, with k = max(sliceFactor, 1): a demand entry of rate  *)
(* > 0 gives exactly k slices of portion rate / k when rate / k >= 1e-6;   *)
(* exactly one slice of portion rate when rate / k < 1e-6 and rate > 1e-9; *)
(* and no slice when rate <= 1e-9.  An entry of rate <= 0 gives no slice.  *)
(***************************************************************************)
\* rate / k >= 1 / inv rps, for an integer rate in 1/unit rps
AtLeastRps(rate, k, inv) == rate >= Ceil(k * unit, inv)

SlicesOf(p) ==
    {i \in DOMAIN slices : slices[i].request_type_id = distribution_data[p][1]}

C17_SlicerAlgorithm ==
    pc \notin {"idle", "slices"} =>
        LET k == IF arg_slice_factor > 1 THEN arg_slice_factor ELSE 1
        IN  /\ \A i \in DOMAIN slices :
                  \E p \in DOMAIN distribution_data : i \in SlicesOf(p)
            /\ \A p \in DOMAIN distribution_data :
                  LET totalRate == distribution_data[p][2]
                  IN  IF totalRate <= 0 \/ totalRate <= unit \div RateEpsInv
                      THEN SlicesOf(p) = {}
                      ELSE IF AtLeastRps(totalRate, k, PortionEpsInv)
                      THEN /\ Cardinality(SlicesOf(p)) = k
                           /\ \A i \in SlicesOf(p) :
                                 slices[i].rate_portion = Q(totalRate, k)
                      ELSE /\ Cardinality(SlicesOf(p)) = 1
                           /\ \A i \in SlicesOf(p) :
                                 slices[i].rate_portion = Q(totalRate, 1)

\* one call in which an entry is coarsened to one slice and another is split in two
C17_Witness ==
    /\ pc \notin {"idle", "slices"}
    /\ arg_slice_factor = 2
    /\ \E p, q \in DOMAIN distribution_data :
          /\ Cardinality(SlicesOf(p)) = 1
          /\ \A i \in SlicesOf(p) : slices[i].rate_portion = Q(distribution_data[p][2], 1)
          /\ Cardinality(SlicesOf(q)) = 2
          /\ \A i \in SlicesOf(q) : slices[i].rate_portion = Q(distribution_data[q][2], 2)

(***************************************************************************)
(* C18.  Forbidden pairings never enter the model: once the variables are  *)
(* declared, A[s, w] exists if and only if (w.id, s.request_type_id) is a  *)
(* key of the profile with a value > 0, and then the load of the pair is   *)
(* s.rate_portion / P; a missing key and a value <= 0 both give the load   *)
(* +infinity; and no returned plan assigns s to such a w.                  *)
(***************************************************************************)
Supported(s, w) ==
    /\ <<w.id, s.request_type_id>> \in DOMAIN profile_data
    /\ profile_data[<<w.id, s.request_type_id>>] > 0

C18_ForbiddenPairingsExcluded ==
    B # {} =>
        \A i \in DOMAIN slices : \A j \in DOMAIN worker_units :
            LET s == slices[i]
                w == worker_units[j]
                L == load_matrix[<<s.id, w.id>>]
            IN  /\ <<s.id, w.id>> \in A <=> Supported(s, w)
                /\ Supported(s, w) =>
                      /\ L.den > 0
                      /\ L.num * s.rate_portion.den
                            * profile_data[<<w.id, s.request_type_id>>]
                         = s.rate_portion.num * L.den
                /\ ~Supported(s, w) =>
                      /\ L = Inf
                      /\ HasPlan =>
                            ~(/\ s.id \in DOMAIN Assignments
                              /\ Assignments[s.id] = w.id)

\* a plan for a profile in which one pair has a throughput below 0 and the slices of
\* that request type are on the other worker
C18_Witness ==
    /\ HasPlan
    /\ \E i \in DOMAIN slices : \E j, j2 \in DOMAIN worker_units :
          /\ <<worker_units[j].id, slices[i].request_type_id>> \in DOMAIN profile_data
          /\ profile_data[<<worker_units[j].id, slices[i].request_type_id>>] < 0
          /\ slices[i].id \in DOMAIN Assignments
          /\ Assignments[slices[i].id] = worker_units[j2].id

(***************************************************************************)
(* C19.  Fractional assignment is rejected: when the backend reports       *)
(* OPTIMAL but, for some slice with candidate workers, the values A[s, .]  *)
(* do not single out one worker with a value > 0.5, no plan is returned.   *)
(***************************************************************************)
SingledOut(sid) ==
    /\ solution[1].half[sid] = {}
    /\ Cardinality({wid \in Candidates(sid) : Selected(sid, wid)}) = 1

C19_FractionalRejected ==
    (/\ Done
     /\ status = "OPTIMAL"
     /\ solution # None
     /\ \E sid \in DOMAIN solution[1].A :
           Candidates(sid) # {} /\ ~SingledOut(sid))
        => result[1].counts = None

(***************************************************************************)
(* C20, as claimed.  For every slice and worker that a returned plan       *)
(* assigns to each other, the load s.rate_portion / P[w, s.request_type_id]*)
(* lies in [0, 1].                                                         *)
(***************************************************************************)
AssignedPairs ==
    {<<i, wid>> \in (DOMAIN ReturnedSlices) \X WorkerIdSet : i \in AssignedTo(wid)}

PairLoad(i, wid) ==
    Q(ReturnedSlices[i].rate_portion.num,
      ReturnedSlices[i].rate_portion.den
         * profile_data[<<wid, ReturnedSlices[i].request_type_id>>])

C20_LoadAtMostOne ==
    HasPlan =>
        \A pair \in AssignedPairs :
            /\ QLeq(QZero, PairLoad(pair[1], pair[2]))
            /\ QLeq(PairLoad(pair[1], pair[2]), Q(1, 1))

(***************************************************************************)
(* C20, amended.  The load of an assigned pair is > 0 and at most the      *)
(* number of instances planned for the worker; it may exceed 1, a slice    *)
(* then needs several instances of its worker class.  In scenario S1 the   *)
(* single slice of 10 rps has load 2 on A and the plan has two A.          *)
(***************************************************************************)
ScenarioS1 ==
    /\ unit = 1
    /\ worker_units = << WorkerUnit("A", 1, None) >>
    /\ profile_data = (<<"A", "R1">> :> 5)
    /\ distribution_data = << <<"R1", 10>> >>
    /\ arg_slice_factor = 1

C20_LoadAtMostCount ==
    HasPlan =>
        /\ \A pair \in AssignedPairs :
              /\ ~QLeq(PairLoad(pair[1], pair[2]), QZero)
              /\ QLeq(PairLoad(pair[1], pair[2]), Q(Counts[pair[2]], 1))
        /\ ScenarioS1 =>
              /\ Counts = ("A" :> 2)
              /\ Len(ReturnedSlices) = 1
              /\ AssignedPairs = {<<1, "A">>}
              /\ PairLoad(1, "A") = Q(2, 1)

C20_Witness == ScenarioS1 /\ HasPlan /\ status = "OPTIMAL"

(***************************************************************************)
(* The slicer's division in binary floating point (ilp_solver.py 41):      *)
(* rate_portion = total_rate / slice_factor is the double nearest to the   *)
(* quotient, with 53 significant bits and ties to even.  The model keeps   *)
(* the quotient in rate_portion; PortionRoundings says on which side of it *)
(* the stored double lies.                                                 *)
(***************************************************************************)
MaxSlicerRate == 5
MaxSlicerFactor == 3
SignificandBits == 53

RECURSIVE PowerOfTwo(_)
PowerOfTwo(n) == n = 1 \/ (n > 1 /\ n % 2 = 0 /\ PowerOfTwo(n \div 2))

\* 2^e mod n
RECURSIVE Pow2Mod(_, _)
Pow2Mod(e, n) == IF e = 0 THEN 1 % n ELSE (2 * Pow2Mod(e - 1, n)) % n

\* the least j >= 0 with r * 2^j >= k
RECURSIVE LeftShift(_, _)
LeftShift(r, k) == IF r >= k THEN 0 ELSE 1 + LeftShift(2 * r, k)

\* e with 2^52 <= (r / k) * 2^e < 2^53, for integers r, k >= 1
SignificandShift(r, k) ==
    IF r >= k THEN SignificandBits - 1 - FloorLog2(r \div k)
    ELSE SignificandBits - 1 + LeftShift(r, k)

\* the side of r / k on which the double r / k lies: -1 below, 0 equal, 1 above
DivisionRounding(r, k) ==
    LET e         == SignificandShift(r, k)
        remainder == ((r % k) * Pow2Mod(e, k)) % k
        odd       == ((((r % (2 * k)) * Pow2Mod(e, 2 * k)) % (2 * k)) \div k) = 1
    IN  IF remainder = 0 THEN 0
        ELSE IF 2 * remainder < k THEN -1
        ELSE IF 2 * remainder > k THEN 1
        ELSE IF odd THEN 1 ELSE -1

\* the sides possible for the stored rate_portion of an entry that is not
\* skipped; a rate below one unit is a double whose significand the model
\* does not hold, and only its division by a power of two is known exact
PortionRoundings(total_rate, k, u) ==
    IF PortionBelowEps(total_rate, ClampSliceFactor(k), u) THEN {0}
    ELSE IF u = 1 THEN {DivisionRounding(total_rate, ClampSliceFactor(k))}
    ELSE IF PowerOfTwo(ClampSliceFactor(k)) THEN {0}
    ELSE {-1, 0, 1}

InitSlicerSweep ==
    /\ unit = 1
    /\ worker_units = Catalog(<<1, 2>>, <<None, None>>)
    /\ profile_data = FullProfile(1)
    /\ distribution_data \in Demands(RequestTypes, -1..MaxSlicerRate)
    /\ arg_slice_factor \in 0..MaxSlicerFactor

InitSlicer ==
    /\ FreshCall
    /\ prev = None
    /\ demo = None
    /\ bucketing = None
    /\ \/ InitSlicerSweep
       \/ InitThresholdSweep
    /\ slice_factor = arg_slice_factor

SpecSlicer == InitSlicer /\ [][Next]_vars

(***************************************************************************)
(* C21, as claimed.  Demand conservation by the slicer: for every request  *)
(* type whose demand rate exceeds 1e-9, the rate_portion values of its     *)
(* slices sum exactly to the demand rate; every slice has rate_portion > 0;*)
(* and no slice is emitted for a request type that is absent from the      *)
(* demand or has a rate <= 0.                                              *)
(***************************************************************************)
Sliced == pc \notin {"idle", "slices"}

PortionOf == [i \in DOMAIN slices |-> slices[i].rate_portion]

\* the quotients kept in rate_portion sum to the demand rate of entry p
QuotientsConserve(p) ==
    QSum(PortionOf, SlicesOf(p)) = Q(distribution_data[p][2], 1)

\* the sides possible for the sum of the stored doubles of entry p
StoredSumSides(p) ==
    PortionRoundings(distribution_data[p][2], arg_slice_factor, unit)

PositivePortionsOfDemandedTypes ==
    \A i \in DOMAIN slices :
        /\ slices[i].rate_portion.num > 0
        /\ \E p \in DOMAIN distribution_data :
              i \in SlicesOf(p) /\ distribution_data[p][2] > 0

C21_DemandConservedExactly ==
    Sliced =>
        /\ \A p \in DOMAIN distribution_data :
              RateAboveEps(distribution_data[p][2], unit) =>
                  /\ QuotientsConserve(p)
                  /\ StoredSumSides(p) = {0}
        /\ PositivePortionsOfDemandedTypes

(***************************************************************************)
(* C21, amended.  The slices of a request type whose rate exceeds 1e-9     *)
(* are k copies of the double nearest to rate / k, or one copy of the rate *)
(* itself: they sum to the rate exactly when that entry is coarsened to    *)
(* one slice or the slice factor is a power of two (the default 2 is), and *)
(* otherwise to the rate up to the rounding of the division, below it or   *)
(* above it.  Every slice has rate_portion > 0 and belongs to a request    *)
(* type of the demand with a rate > 0.                                     *)
(***************************************************************************)
C21_DemandConservedUpToRounding ==
    Sliced =>
        /\ \A p \in DOMAIN distribution_data :
              RateAboveEps(distribution_data[p][2], unit) =>
                  /\ QuotientsConserve(p)
                  /\ StoredSumSides(p) \subseteq {-1, 0, 1}
                  /\ (Cardinality(SlicesOf(p)) = 1
                        \/ PowerOfTwo(ClampSliceFactor(arg_slice_factor)))
                         => StoredSumSides(p) = {0}
        /\ PositivePortionsOfDemandedTypes

\* three slices of 1/3 stored below the quotient, next to an entry that is skipped
C21_Witness ==
    /\ Sliced
    /\ unit = 1
    /\ arg_slice_factor = 3
    /\ \E p, q \in DOMAIN distribution_data :
          /\ distribution_data[p][2] = 1
          /\ Cardinality(SlicesOf(p)) = 3
          /\ StoredSumSides(p) = {-1}
          /\ distribution_data[q][2] <= 0
          /\ SlicesOf(q) = {}

(***************************************************************************)
(* C22.  No over-provisioning: in every returned plan, counts has exactly  *)
(* one entry per catalog worker id, and for every worker w with cost > 0,  *)
(* counts[w] is the smallest non-negative integer >= the total load of the *)
(* slices assigned to w; hence counts[w] = 0 if no slice is assigned to w  *)
(* and counts[w] >= 1 if at least one is.                                  *)
(***************************************************************************)
C22_NoOverProvisioning ==
    HasPlan =>
        /\ DOMAIN Counts = WorkerIdSet
        /\ \A wid \in WorkerIdSet :
              WorkerOf(wid).cost > 0 =>
                  /\ Counts[wid] >= 0
                  /\ Counts[wid] = Ceil(AssignedLoad(wid).num, AssignedLoad(wid).den)
                  /\ AssignedTo(wid) = {} => Counts[wid] = 0
                  /\ AssignedTo(wid) # {} => Counts[wid] >= 1

\* a plan of two workers of positive cost: one idle with no instance, the
\* other with two instances for a load above 1 that is not an integer
C22_Witness ==
    /\ HasPlan
    /\ status = "OPTIMAL"
    /\ \E wid, other \in WorkerIdSet :
          /\ WorkerOf(wid).cost > 0
          /\ WorkerOf(other).cost > 0
          /\ AssignedTo(other) = {}
          /\ Counts[other] = 0
          /\ Counts[wid] = 2
          /\ AssignedLoad(wid).den > 1
          /\ ~QLeq(AssignedLoad(wid), Q(1, 1))

====
